---- MODULE Spec2Model ----
(***************************************************************************)
(* omnibot: the agent wrapper (app/client/client.py, MCPAgentWrapper) and  *)
(* the HTTP front door (main.py, /chat).                                   *)
(*                                                                         *)
(* The wrapper loads the tools of every configured MCP server, builds one  *)
(* agent, and keeps one process-wide chat_history that every invoke        *)
(* appends to.  The chat endpoint wraps the message in a fixed prompt,     *)
(* calls invoke and answers with a JSON body.                              *)
(*                                                                         *)
(* Texts are sequences of characters; " " is the only whitespace           *)
(* character of the model, every other character is printable.             *)
(***************************************************************************)
EXTENDS Integers, Sequences, FiniteSets, TLC

\* ------------------------------------------------------------------ bounds
\* Servers listed in the configuration document, at most.
MaxServers == 2
\* invoke calls started over the life of the process, at most.
MaxInvokes == 2
\* Tool rounds (tool-calling AIMessage + ToolMessage) of one agent run, at most.
MaxToolRounds == 1

\* ------------------------------------------------------------ environment
\* The three tool servers of the repository, by their FastMCP names.
ServerNames == {"assistant", "doctor", "geo_assistant"}

\* The tools each server registers, in declaration order.
DeclaredTools(s) ==
    CASE s = "assistant" ->
           <<"send_email", "schedule_meeting_input_parser", "schedule_meeting",
             "send_message_via_whatsapp", "send_message_on_slack">>
      [] s = "doctor" -> <<"disease_diagnoser">>
      [] s = "geo_assistant" ->
           <<"get_coordinates", "find_nearby_places", "get_travel_info">>

\* What happens when initialize connects to a server: the step that raises
\* (stdio_client, ClientSession, session.initialize, load_mcp_tools), or
\* "empty" (the listing succeeds and is empty), or "ok".
Fates == {"launch", "session", "handshake", "list", "empty", "ok"}

\* The tools load_mcp_tools returns for server s when nothing raises.
ListedTools(s, f) == IF f = "ok" THEN DeclaredTools(s) ELSE <<>>

\* Sequences over S without repetition, of length at most n.
InjectiveSeqs(S, n) ==
    UNION { { q \in [1..k -> S] : \A i, j \in 1..k : i # j => q[i] # q[j] }
            : k \in 0..n }

RECURSIVE Concat(_)
\* The concatenation of a sequence of sequences.
Concat(ss) == IF ss = <<>> THEN <<>> ELSE Head(ss) \o Concat(Tail(ss))

\* ------------------------------------------------------------------ texts
IsSpace(ch) == ch = " "

RECURSIVE LStrip(_)
LStrip(t) == IF t # <<>> /\ IsSpace(Head(t)) THEN LStrip(Tail(t)) ELSE t

RECURSIVE RStrip(_)
RStrip(t) ==
    IF t # <<>> /\ IsSpace(t[Len(t)]) THEN RStrip(SubSeq(t, 1, Len(t) - 1)) ELSE t

\* str.strip(): leading and trailing whitespace removed.
Strip(t) == RStrip(LStrip(t))

\* The texts a caller sends.
Messages == {<<>>, <<"q">>}
\* The contents of the final AIMessage of a run.
AIContents == {<<>>, <<" ">>, <<"a">>}
\* The contents of an AIMessage that requests a tool call.
ToolCallContents == {<<"r">>}
\* The contents of a ToolMessage.
ToolContents == {<<"t">>}

\* The fixed prompt of the chat endpoint, ending with a space.
PromptPrefix == <<"P", " ">>

\* f"You are omnibot ... Now cater this query: {message}"
ChatPrompt(message) == PromptPrefix \o message


\* --------------------------------------------------------------- messages
\* A LangChain message: HumanMessage, AIMessage or ToolMessage.  id tells
\* message objects apart (two messages may carry the same content).
Msg(t, c, i) == [type |-> t, content |-> c, id |-> i]

Last(q) == q[Len(q)]

\* tool rounds of a run: n (AIMessage with a tool call, ToolMessage) pairs.
RECURSIVE ToolRounds(_)
ToolRounds(n) ==
    IF n = 0 THEN {<<>>}
    ELSE { <<[type |-> "ai", content |-> r], [type |-> "tool", content |-> t]>> \o rest :
             r \in ToolCallContents, t \in ToolContents, rest \in ToolRounds(n - 1) }

\* What one run of the react agent adds to the messages it was given: zero
\* or more tool rounds, then the final AIMessage.
Runs ==
    { rounds \o <<[type |-> "ai", content |-> c]>> :
        rounds \in UNION { ToolRounds(n) : n \in 0..MaxToolRounds }, c \in AIContents }

\* The messages of a run as message objects, numbered from id i.
Stamp(run, i) == [k \in 1..Len(run) |-> Msg(run[k].type, run[k].content, i + k - 1)]

\* ------------------------------------------------------------------ state
\* The requests that can be in flight at once, as slots: a call takes the
\* lowest free slot.
Callers == {1, 2}

NoAgent == [present |-> FALSE, tools |-> <<>>]
NoBody == [kind |-> "none", text |-> <<>>]
NoOutcome == [status |-> "none", error |-> <<>>]

\* str(e) of the exceptions the model distinguishes.
NotInitializedText == <<"Agent not initialized. Call initialize() first.">>
ModelFailureText == <<"model call failed">>
NoAIMessageText == <<"No AIMessage returned. Try rephrasing your request.">>

\* -------------------------------------------------------- tool adapters
\* How one call of an adapter to its external service ends.
Outcomes == {"success", "service_error", "not_found", "network_failure"}

\* The arguments of a tool call: well-formed, a start time that dateutil
\* cannot parse, or a dict that ScheduleMeetingInput rejects.
ToolInputs == {"ok", "bad_time", "bad_schema"}

\* The most external calls one adapter makes (get_travel_info: two
\* geocodings and one routing request).
MaxExternalCalls == 3

\* What an adapter does: it returns a value or an exception leaves it.
Returns(v) == [kind |-> "return", value |-> v]
Raises == [kind |-> "raise", value |-> "exception"]

NoCall == [tool |-> "none", input |-> "ok", outcomes |-> <<>>]
NoResult == [kind |-> "none", value |-> "none"]

\* send_email: the whole SMTP session is inside try/except, which only
\* prints; the function has no return statement.
send_email(o) == Returns("none")

\* schedule_meeting: authenticate_google() and build() (call 1) run before
\* any try; the start time is parsed in a first try, events().insert (call
\* 2) runs in a second one; success prints the link and returns nothing.
schedule_meeting(input, o) ==
    IF o[1] # "success" THEN Raises
    ELSE IF input = "bad_time" THEN Returns("error_text")
    ELSE IF o[2] # "success" THEN Returns("error_text")
    ELSE Returns("none")

\* schedule_meeting_input_parser: ValidationError becomes a string, the
\* rest is schedule_meeting.
schedule_meeting_input_parser(input, o) ==
    IF input = "bad_schema" THEN Returns("error_text") ELSE schedule_meeting(input, o)

\* send_message_via_whatsapp: client.messages.create with no try; success
\* prints the body and returns nothing.
send_message_via_whatsapp(o) ==
    IF o[1] # "success" THEN Raises ELSE Returns("none")

\* send_message_on_slack: requests.post with no try; a reply that is not
\* 200, or not ok, becomes a string.
send_message_on_slack(o) ==
    CASE o[1] = "network_failure" -> Raises
      [] o[1] = "success" -> Returns("text")
      [] OTHER -> Returns("error_text")

\* disease_diagnoser: esearch (call 1) and efetch (call 2) inside one
\* try/except that returns a string; no ids is "No articles found".
disease_diagnoser(o) ==
    CASE o[1] = "not_found" -> Returns("text")
      [] o[1] # "success" -> Returns("error_text")
      [] o[2] = "success" -> Returns("text")
      [] o[2] = "not_found" -> Returns("text")
      [] OTHER -> Returns("error_text")

\* get_coordinates on the outcome g of geolocator.geocode: no location
\* raises ValueError, a geopy error is not caught.
get_coordinates(g) == IF g = "success" THEN Returns("data") ELSE Raises

\* find_nearby_places: get_coordinates (call 1), then overpass_api.query
\* (call 2) with no try; an empty result is an empty list.
find_nearby_places(o) ==
    IF get_coordinates(o[1]).kind = "raise" THEN Raises
    ELSE IF o[2] \in {"success", "not_found"} THEN Returns("data")
    ELSE Raises

\* get_travel_info: get_coordinates twice (calls 1, 2), then requests.get
\* (call 3); a status other than 200 raises Exception.
get_travel_info(o) ==
    IF get_coordinates(o[1]).kind = "raise" THEN Raises
    ELSE IF get_coordinates(o[2]).kind = "raise" THEN Raises
    ELSE IF o[3] = "success" THEN Returns("data")
    ELSE Raises

\* The nine adapters, by tool name.
ToolNames == UNION { { DeclaredTools(s)[i] : i \in 1..Len(DeclaredTools(s)) } : s \in ServerNames }

\* The number of external calls the adapter makes at most.
CallsOf(t) ==
    CASE t \in {"send_email", "send_message_via_whatsapp", "send_message_on_slack",
                "get_coordinates"} -> 1
      [] t \in {"schedule_meeting", "schedule_meeting_input_parser",
                "disease_diagnoser", "find_nearby_places"} -> 2
      [] t = "get_travel_info" -> 3

\* The adapter of tool t, applied to a call's input and the outcomes of its
\* external calls in order.
Adapter(t, input, o) ==
    CASE t = "send_email" -> send_email(o)
      [] t = "schedule_meeting" -> schedule_meeting(input, o)
      [] t = "schedule_meeting_input_parser" -> schedule_meeting_input_parser(input, o)
      [] t = "send_message_via_whatsapp" -> send_message_via_whatsapp(o)
      [] t = "send_message_on_slack" -> send_message_on_slack(o)
      [] t = "disease_diagnoser" -> disease_diagnoser(o)
      [] t = "get_coordinates" -> get_coordinates(o[1])
      [] t = "find_nearby_places" -> find_nearby_places(o)
      [] t = "get_travel_info" -> get_travel_info(o)

VARIABLES
    config,        \* the configuration document: readable, mcpServers (in order)
    fate,          \* per server: what connecting to it does (environment)
    phase,         \* where initialize is: new, loading, ready, failed, exited
    next_server,   \* index of the next entry of mcp_servers.items()
    tools,         \* initialize's local list `tools`
    stack,         \* self.stack: the contexts entered, in order of entry
    agent,         \* self.agent
    http,          \* the web server: startup, serving, aborted, stopped
    chat_history,  \* self.chat_history
    pc,            \* per caller: idle, awaiting (suspended in ainvoke), done
    via,           \* per caller: "chat" (POST /chat) or "direct" (invoke itself)
    request,       \* per caller: the messages handed to agent.ainvoke
    outcome,       \* per caller: what invoke did: returned / raised
    body,          \* per caller: the JSON body of the chat endpoint
    nextId,        \* id of the next message object created
    started,       \* invoke calls started so far
    lenBefore,     \* observation: len(chat_history) when the caller's invoke began
    overlapped,    \* observation: another invoke ran since this one began
    produced,      \* observation: the messages the caller's agent run produced
    tool_call,     \* tool server: the call being handled (tool, input, outcomes)
    tool_result    \* tool server: what the adapter did for that call

vars == <<config, fate, phase, next_server, tools, stack, agent, http,
          chat_history, pc, via, request, outcome, body, nextId, started,
          lenBefore, overlapped, produced, tool_call, tool_result>>

toolVars == <<tool_call, tool_result>>

initVars == <<phase, next_server, tools, stack, agent, http>>
callVars == <<chat_history, pc, via, request, outcome, body, nextId, started,
              lenBefore, overlapped, produced>>

\* The state after `mcp_wrapper = MCPAgentWrapper()`, in an environment whose
\* configuration document lists one of `lists` (when it can be read at all)
\* and whose servers meet one of `fates`.
InitIn(lists, fates) ==
    /\ config \in [readable : BOOLEAN, mcpServers : lists]
    /\ (~config.readable => config.mcpServers = <<>>)
    /\ fate \in [ServerNames -> fates \cup {"ok"}]
    /\ \A s \in ServerNames :
         (\A i \in 1..Len(config.mcpServers) : config.mcpServers[i] # s) => fate[s] = "ok"
    /\ phase = "new"
    /\ next_server = 1
    /\ tools = <<>>
    /\ stack = <<>>
    /\ agent = NoAgent
    /\ http = "startup"
    /\ chat_history = <<>>
    /\ pc = [h \in Callers |-> "idle"]
    /\ via = [h \in Callers |-> "direct"]
    /\ request = [h \in Callers |-> <<>>]
    /\ outcome = [h \in Callers |-> NoOutcome]
    /\ body = [h \in Callers |-> NoBody]
    /\ nextId = 1
    /\ started = 0
    /\ lenBefore = [h \in Callers |-> 0]
    /\ overlapped = [h \in Callers |-> FALSE]
    /\ produced = [h \in Callers |-> <<>>]
    /\ tool_call = NoCall
    /\ tool_result = NoResult

\* ------------------------------------------------------------- initialize
\* The contexts a server leaves on self.stack: stdio_client is entered
\* first, ClientSession second; a context whose entry raises is not pushed.
Acquired(s, f) ==
    CASE f = "launch" -> <<>>
      [] f = "session" -> << <<s, "stdio">> >>
      [] OTHER -> << <<s, "stdio">>, <<s, "session">> >>

\* The fates in which a step of the try block raised.
Failing == {"launch", "session", "handshake", "list"}

\* What the body of the try block adds to `tools` for server s: nothing when
\* any step raised (the except clause only prints).
Loaded(s, f) == IF f \in Failing THEN <<>> ELSE ListedTools(s, f)


\* read_config_json, the mcpServers check, and entering the exit stack.
InitializeBegin ==
    /\ phase = "new"
    /\ IF ~config.readable
         THEN phase' = "exited" /\ http' = "aborted"
         ELSE IF config.mcpServers = <<>>
           THEN phase' = "failed" /\ http' = "aborted"
           ELSE phase' = "loading" /\ http' = http
    /\ UNCHANGED <<config, fate, next_server, tools, stack, agent>>
    /\ UNCHANGED callVars
    /\ UNCHANGED toolVars

\* A loop that a failing server ends: the servers after it are not tried.
LoadServerAborting ==
    /\ phase = "loading"
    /\ next_server <= Len(config.mcpServers)
    /\ LET s == config.mcpServers[next_server] IN
         /\ stack' = stack \o Acquired(s, fate[s])
         /\ tools' = tools \o Loaded(s, fate[s])
         /\ next_server' = IF fate[s] \in Failing
                             THEN Len(config.mcpServers) + 1
                             ELSE next_server + 1
    /\ UNCHANGED <<config, fate, phase, agent, http>>
    /\ UNCHANGED callVars
    /\ UNCHANGED toolVars

\* A loop that puts each server's tools in front of those loaded so far.
LoadServerPrepending ==
    /\ phase = "loading"
    /\ next_server <= Len(config.mcpServers)
    /\ LET s == config.mcpServers[next_server] IN
         /\ stack' = stack \o Acquired(s, fate[s])
         /\ tools' = Loaded(s, fate[s]) \o tools
    /\ next_server' = next_server + 1
    /\ UNCHANGED <<config, fate, phase, agent, http>>
    /\ UNCHANGED callVars
    /\ UNCHANGED toolVars

\* One iteration of the loop over mcp_servers.items().
LoadServer ==
    /\ phase = "loading"
    /\ next_server <= Len(config.mcpServers)
    /\ LET s == config.mcpServers[next_server] IN
         /\ stack' = stack \o Acquired(s, fate[s])
         /\ tools' = tools \o Loaded(s, fate[s])
    /\ next_server' = next_server + 1
    /\ UNCHANGED <<config, fate, phase, agent, http>>
    /\ UNCHANGED callVars
    /\ UNCHANGED toolVars

\* An end of initialize without the `if not tools` check.
InitializeEndUnchecked ==
    /\ phase = "loading"
    /\ next_server > Len(config.mcpServers)
    /\ phase' = "ready"
    /\ http' = "serving"
    /\ agent' = [present |-> TRUE, tools |-> tools]
    /\ UNCHANGED <<config, fate, next_server, tools, stack>>
    /\ UNCHANGED callVars
    /\ UNCHANGED toolVars

\* After the loop: no tools is fatal, otherwise the agent is created; the
\* startup event returns and the web server starts serving.
InitializeEnd ==
    /\ phase = "loading"
    /\ next_server > Len(config.mcpServers)
    /\ IF tools = <<>>
         THEN phase' = "failed" /\ http' = "aborted" /\ agent' = agent
         ELSE phase' = "ready" /\ http' = "serving"
              /\ agent' = [present |-> TRUE, tools |-> tools]
    /\ UNCHANGED <<config, fate, next_server, tools, stack>>
    /\ UNCHANGED callVars
    /\ UNCHANGED toolVars

\* The web server stops once no request is in flight.  main.py registers no
\* shutdown handler and nothing closes self.stack.
Shutdown ==
    /\ http = "serving"
    /\ \A h \in Callers : pc[h] = "idle"
    /\ http' = "stopped"
    /\ UNCHANGED <<config, fate, phase, next_server, tools, stack, agent>>
    /\ UNCHANGED callVars
    /\ UNCHANGED toolVars

\* ----------------------------------------------------------------- invoke
\* An invoke without the guard.
AgentMissingNever == FALSE

\* `if not self.agent`
AgentMissing == ~agent.present

\* self.chat_history.append(HumanMessage(content=user_input))
WithUserTurn(history, text, i) == Append(history, Msg("human", text, i))

\* A request that carries only the newest turn.
RequestOfLastTurnOnly(history) == <<Last(history)>>

\* The list invoke hands to agent.ainvoke: self.chat_history itself, after
\* the append.
RequestOf(history) == history

\* The state the react agent returns: the messages it was given, followed
\* by the messages the run produced.
AgentResponse(req, new) == req \o new

\* isinstance(msg, AIMessage) and msg.content.strip()
IsNonEmptyAI(m) == m.type = "ai" /\ Strip(m.content) # <<>>

\* invoke's list ai_messages, taken from response["messages"].
AIMessages(response) == SelectSeq(response, IsNonEmptyAI)

\* An invoke that replaces the Transcript by the list the agent returned.
PersistWholeResponse(history, response) == response

\* `if ai_messages: self.chat_history.append(ai_messages[-1])`
Persist(history, response) ==
    IF AIMessages(response) # <<>>
      THEN Append(history, Last(AIMessages(response)))
      ELSE history

\* ------------------------------------------------------------- POST /chat
\* hasattr(msg, "content") and getattr(msg, "content", "").strip(): every
\* message has a content, whatever its type.
HasContent(m) == Strip(m.content) # <<>>

\* The chat handler's list ai_messages.
ChatMessages(response) == SelectSeq(response, HasContent)

\* The body of a request whose invoke returned (the response is a dict, so
\* the "Invalid response format" branch is never taken).
ChatBody(response) ==
    IF ChatMessages(response) = <<>>
      THEN [kind |-> "response", text |-> NoAIMessageText]
      ELSE [kind |-> "response", text |-> Last(ChatMessages(response)).content]

\* except Exception as e: return {"error": str(e)}
ChatError(text) == [kind |-> "error", text |-> text]

\* A chat handler without the except clause: the exception leaves it and
\* no body is made.
RaisedUncaught(h, v, text) ==
    /\ outcome' = [outcome EXCEPT ![h] = [status |-> "raised", error |-> text]]
    /\ body' = [body EXCEPT ![h] = NoBody]

\* What the caller gets when invoke raises: the chat handler turns the
\* exception into a body, a direct caller sees the exception.
Raised(h, v, text) ==
    /\ outcome' = [outcome EXCEPT ![h] = [status |-> "raised", error |-> text]]
    /\ body' = [body EXCEPT ![h] = IF v = "chat" THEN ChatError(text) ELSE NoBody]

\* A caller calls invoke, through POST /chat (once the web server serves) or
\* directly; invoke runs up to its await of agent.ainvoke.
Call(h, v, message) ==
    /\ pc[h] = "idle"
    /\ \A g \in Callers : g < h => pc[g] # "idle"
    /\ started < MaxInvokes
    /\ phase # "exited"
    /\ http # "stopped"
    /\ v = "chat" => http = "serving"
    /\ started' = started + 1
    /\ via' = [via EXCEPT ![h] = v]
    /\ lenBefore' = [lenBefore EXCEPT ![h] = Len(chat_history)]
    /\ LET text == IF v = "chat" THEN ChatPrompt(message) ELSE message IN
         IF AgentMissing
           THEN /\ Raised(h, v, NotInitializedText)
                /\ pc' = [pc EXCEPT ![h] = "done"]
                /\ UNCHANGED <<chat_history, request, nextId, overlapped>>
           ELSE /\ chat_history' = WithUserTurn(chat_history, text, nextId)
                /\ nextId' = nextId + 1
                /\ request' = [request EXCEPT ![h] = RequestOf(chat_history')]
                /\ pc' = [pc EXCEPT ![h] = "awaiting"]
                /\ overlapped' =
                     [g \in Callers |->
                        IF g = h THEN \E o \in Callers \ {h} : pc[o] = "awaiting"
                        ELSE overlapped[g] \/ pc[g] \in {"awaiting", "done"}]
                /\ UNCHANGED <<outcome, body>>
    /\ UNCHANGED produced
    /\ UNCHANGED <<config, fate>>
    /\ UNCHANGED initVars
    /\ UNCHANGED toolVars

\* agent.ainvoke returns; invoke persists the assistant turn and returns the
\* response; the chat handler builds its body.
ModelReturns(h, run) ==
    /\ pc[h] = "awaiting"
    /\ LET new == Stamp(run, nextId)
           response == AgentResponse(request[h], new)
       IN /\ chat_history' = Persist(chat_history, response)
          /\ produced' = [produced EXCEPT ![h] = new]
          /\ outcome' = [outcome EXCEPT ![h] = [status |-> "returned", error |-> <<>>]]
          /\ body' = [body EXCEPT ![h] =
                        IF via[h] = "chat" THEN ChatBody(response) ELSE NoBody]
    /\ nextId' = nextId + Len(run)
    /\ pc' = [pc EXCEPT ![h] = "done"]
    /\ UNCHANGED <<via, request, started, lenBefore, overlapped>>
    /\ UNCHANGED <<config, fate>>
    /\ UNCHANGED initVars
    /\ UNCHANGED toolVars

\* An invoke that takes its UserTurn back when the model call fails.
ModelRaisesRollingBack(h) ==
    /\ pc[h] = "awaiting"
    /\ Raised(h, via[h], ModelFailureText)
    /\ pc' = [pc EXCEPT ![h] = "done"]
    /\ chat_history' = SelectSeq(chat_history, LAMBDA m : m # Last(request[h]))
    /\ UNCHANGED <<via, request, nextId, started, lenBefore, overlapped, produced>>
    /\ UNCHANGED <<config, fate>>
    /\ UNCHANGED initVars
    /\ UNCHANGED toolVars

\* agent.ainvoke raises (the model call failed after its retries, a tool
\* was unknown, ...): invoke has no handler, the exception reaches the caller.
ModelRaises(h) ==
    /\ pc[h] = "awaiting"
    /\ Raised(h, via[h], ModelFailureText)
    /\ pc' = [pc EXCEPT ![h] = "done"]
    /\ UNCHANGED <<chat_history, via, request, nextId, started, lenBefore,
                   overlapped, produced>>
    /\ UNCHANGED <<config, fate>>
    /\ UNCHANGED initVars
    /\ UNCHANGED toolVars

\* The caller has its answer and is free for its next call.
Return(h) ==
    /\ pc[h] = "done"
    /\ pc' = [pc EXCEPT ![h] = "idle"]
    /\ via' = [via EXCEPT ![h] = "direct"]
    /\ request' = [request EXCEPT ![h] = <<>>]
    /\ outcome' = [outcome EXCEPT ![h] = NoOutcome]
    /\ body' = [body EXCEPT ![h] = NoBody]
    /\ lenBefore' = [lenBefore EXCEPT ![h] = 0]
    /\ overlapped' = [overlapped EXCEPT ![h] = FALSE]
    /\ produced' = [produced EXCEPT ![h] = <<>>]
    /\ UNCHANGED <<chat_history, nextId, started>>
    /\ UNCHANGED <<config, fate>>
    /\ UNCHANGED initVars
    /\ UNCHANGED toolVars

\* ------------------------------------------------------------ tool server
\* A tool server receives a call; the outcomes of the external calls the
\* adapter will make are the environment's.
ToolRequest(t, input, o) ==
    /\ tool_call = NoCall
    /\ tool_call' = [tool |-> t, input |-> input, outcomes |-> o]
    /\ tool_result' = NoResult
    /\ UNCHANGED <<config, fate>>
    /\ UNCHANGED initVars
    /\ UNCHANGED callVars

\* The adapter runs to its end.
ToolRun ==
    /\ tool_call # NoCall
    /\ tool_result = NoResult
    /\ tool_result' = Adapter(tool_call.tool, tool_call.input, tool_call.outcomes)
    /\ UNCHANGED tool_call
    /\ UNCHANGED <<config, fate>>
    /\ UNCHANGED initVars
    /\ UNCHANGED callVars

\* The server is free for its next call.
ToolDone ==
    /\ tool_result # NoResult
    /\ tool_call' = NoCall
    /\ tool_result' = NoResult
    /\ UNCHANGED <<config, fate>>
    /\ UNCHANGED initVars
    /\ UNCHANGED callVars

NextTools ==
    \/ \E t \in ToolNames, input \in ToolInputs, o \in [1..MaxExternalCalls -> Outcomes] :
         ToolRequest(t, input, o)
    \/ ToolRun
    \/ ToolDone

\* A tool server on its own: every tool, every input and every outcome of
\* every external call.
SpecTools == InitIn({<<>>}, {"ok"}) /\ [][NextTools]_vars

\* The steps of the program, with the callers' texts drawn from msgs and the
\* agent's runs from runs.
NextOver(msgs, runs) ==
    \/ InitializeBegin
    \/ LoadServer
    \/ InitializeEnd
    \/ Shutdown
    \/ \E h \in Callers, v \in {"chat", "direct"}, message \in msgs : Call(h, v, message)
    \/ \E h \in Callers, run \in runs : ModelReturns(h, run)
    \/ \E h \in Callers : ModelRaises(h)
    \/ \E h \in Callers : Return(h)

\* The repository's three servers in one configuration document (or a
\* document that lists none); every server connects.
Deployment == {<<>>, <<"assistant", "doctor", "geo_assistant">>}

Init == InitIn(Deployment, {"ok"})

Next == NextOver(Messages, Runs)

\* The deployed program under every text and every agent run.
Spec == Init /\ [][Next]_vars

\* Every configuration document of at most MaxServers servers and every
\* fate of each server, with one text and one agent run per call.
InitStartup == InitIn(InjectiveSeqs(ServerNames, MaxServers), Fates)

NextStartup == NextOver({<<"q">>}, {<<[type |-> "ai", content |-> <<"a">>]>>})

SpecStartup == InitStartup /\ [][NextStartup]_vars

\* ================================================================= claims
IsPrefix(p, q) == Len(p) <= Len(q) /\ SubSeq(q, 1, Len(p)) = p

\* Caller h's invoke has returned and no other invoke ran meanwhile.
ReturnedAlone(h) ==
    pc[h] = "done" /\ outcome[h].status = "returned" /\ ~overlapped[h]

\* The non-empty assistant messages of caller h's own agent run.
OwnAIMessages(h) == SelectSeq(produced[h], IsNonEmptyAI)

\* C1: after a successful invoke that ran alone, the Transcript has grown by
\* the UserTurn, plus one AssistantTurn exactly when this call's own run
\* produced a non-empty assistant message (so by 1 when it produced none).
C1_GrowthFollowsOwnRun ==
    \A h \in Callers :
        ReturnedAlone(h) =>
            Len(chat_history) =
                lenBefore[h] + 1 + (IF OwnAIMessages(h) # <<>> THEN 1 ELSE 0)

\* C2: what a successful invoke that ran alone appends after the UserTurn is
\* at most one AssistantTurn, it is the last non-empty assistant message of
\* the call's own run, and no message object is in the Transcript twice.
C2_AppendsOwnLatestOnce ==
    /\ \A h \in Callers :
         ReturnedAlone(h) =>
            /\ Len(chat_history) <= lenBefore[h] + 2
            /\ Len(chat_history) = lenBefore[h] + 2 =>
                 /\ OwnAIMessages(h) # <<>>
                 /\ Last(chat_history) = Last(OwnAIMessages(h))
    /\ \A i, j \in 1..Len(chat_history) :
         i # j => chat_history[i].id # chat_history[j].id

\* C3: the step in which an invoke issues its model request appends the
\* UserTurn first, and the request is the whole Transcript as it was, every
\* turn in place, followed by that UserTurn; no step shortens or rewrites
\* the Transcript.
C3_RequestCarriesTranscript ==
    [][ /\ IsPrefix(chat_history, chat_history')
        /\ \A h \in Callers :
             (pc[h] # "awaiting" /\ pc'[h] = "awaiting") =>
                /\ Len(request'[h]) = Len(chat_history) + 1
                /\ SubSeq(request'[h], 1, Len(chat_history)) = chat_history
                /\ Last(request'[h]).type = "human"
                /\ request'[h] = chat_history' ]_vars

\* C3 witness: a second invoke, alone, awaits the model with a request that
\* holds the first call's UserTurn and AssistantTurn before its own UserTurn.
C3_Witness ==
    \E h \in Callers :
        /\ pc[h] = "awaiting" /\ ~overlapped[h]
        /\ Len(request[h]) = 3
        /\ request[h][1].type = "human"
        /\ request[h][2].type = "ai"
        /\ request[h][3].type = "human"

\* Server number i of the configuration document.
ServerAt(i) == config.mcpServers[i]

\* What server s has to offer: its declared tools if it connects.
Offer(s) == IF fate[s] = "ok" THEN DeclaredTools(s) ELSE <<>>

\* The offers of the first n servers of the document, in document order.
Offers(n) == Concat([i \in 1..n |-> Offer(ServerAt(i))])

\* C4: an invoke called while the wrapper is not Ready raises the
\* not-initialized error at once: no model request is issued, the Transcript
\* is left as it was, and a chat caller gets that error as its body.
C4_NotReadyInvokeRaises ==
    [][ \A h \in Callers :
          (pc[h] = "idle" /\ pc'[h] # "idle" /\ phase # "ready") =>
             /\ pc'[h] = "done"
             /\ outcome'[h] = [status |-> "raised", error |-> NotInitializedText]
             /\ request'[h] = <<>>
             /\ chat_history' = chat_history
             /\ nextId' = nextId ]_vars

\* C4 witness: initialize has failed and an invoke called after that has
\* raised the not-initialized error.
C4_Witness ==
    \E h \in Callers :
        /\ phase = "failed"
        /\ pc[h] = "done"
        /\ outcome[h] = [status |-> "raised", error |-> NotInitializedText]

\* C5: while and after the servers are loaded, `tools` holds exactly the
\* offers of the servers tried so far (nothing for a server that failed at
\* any step, whatever the others did), and initialize ends only after it
\* has tried every server of the document.
C5_FailureSkipsOnlyThatServer ==
    /\ phase \in {"loading", "ready", "failed"} => tools = Offers(next_server - 1)
    /\ (phase \in {"ready", "failed"} /\ config.mcpServers # <<>>) =>
          next_server = Len(config.mcpServers) + 1

\* C5 witness: the first server failed its handshake, the second was loaded
\* all the same, and the wrapper is Ready with the second server's tools.
C5_Witness ==
    /\ phase = "ready"
    /\ Len(config.mcpServers) = 2
    /\ fate[ServerAt(1)] = "handshake"
    /\ fate[ServerAt(2)] = "ok"
    /\ tools = DeclaredTools(ServerAt(2))

\* The configuration cannot be read, or lists no server, or none of its
\* servers connects with tools.
Doomed ==
    \/ ~config.readable
    \/ \A i \in 1..Len(config.mcpServers) : fate[ServerAt(i)] # "ok"

\* C6: in a doomed environment the wrapper never gets Ready and never has an
\* agent, the web server never serves, no invoke ever reaches the model or
\* returns, and once initialize has ended the startup is aborted.
C6_DoomedNeverServes ==
    Doomed =>
        /\ phase # "ready"
        /\ ~agent.present
        /\ http # "serving"
        /\ \A h \in Callers : pc[h] # "awaiting" /\ outcome[h].status # "returned"
        /\ chat_history = <<>>
        /\ phase \in {"failed", "exited"} => http = "aborted"

\* C6 witness: every listed server was tried and failed, and initialize has
\* failed.
C6_Witness ==
    /\ phase = "failed"
    /\ Len(config.mcpServers) >= 2
    /\ next_server = Len(config.mcpServers) + 1
    /\ stack # <<>>

\* C7: once initialize has failed, or the web server has stopped, every
\* context entered on the exit stack has been released.
C7_ContextsReleased ==
    (phase = "failed" \/ http = "stopped") => stack = <<>>

\* C8: when the configuration can be read and at least one listed server
\* connects with tools, initialize ends Ready, and the agent is built with
\* the offers of the listed servers in document order.
C8_ReadyWithToolsInOrder ==
    (/\ config.readable
     /\ \E i \in 1..Len(config.mcpServers) : fate[ServerAt(i)] = "ok"
     /\ phase \notin {"new", "loading"}) =>
        /\ phase = "ready"
        /\ agent.present
        /\ agent.tools = Offers(Len(config.mcpServers))

\* C8 witness: two servers connected, and the agent holds the first one's
\* tools followed by the second one's.
C8_Witness ==
    /\ phase = "ready"
    /\ Len(config.mcpServers) = 2
    /\ fate[ServerAt(1)] = "ok"
    /\ fate[ServerAt(2)] = "ok"
    /\ agent.tools = DeclaredTools(ServerAt(1)) \o DeclaredTools(ServerAt(2))

\* C9: the "response" text of a chat request is the content of an assistant
\* message that the agent produced for this request.
C9_ResponseIsOwnAssistantText ==
    \A h \in Callers :
        (pc[h] = "done" /\ via[h] = "chat" /\ body[h].kind = "response") =>
            \E i \in 1..Len(produced[h]) :
                /\ produced[h][i].type = "ai"
                /\ produced[h][i].content = body[h].text

\* C10: a chat request whose invoke raised is answered with an "error" body
\* carrying the exception's text, one whose invoke returned with a
\* "response" body, and the web server is still serving.
C10_ChatAlwaysAnswers ==
    \A h \in Callers :
        (pc[h] = "done" /\ via[h] = "chat") =>
            /\ http = "serving"
            /\ outcome[h].status = "raised" =>
                 body[h] = [kind |-> "error", text |-> outcome[h].error]
            /\ outcome[h].status = "returned" => body[h].kind = "response"
            /\ outcome[h].status \in {"raised", "returned"}

\* C10 witness: a chat request whose model call failed has its "error" body
\* while an earlier chat request's turn is in the Transcript.
C10_Witness ==
    \E h \in Callers :
        /\ pc[h] = "done"
        /\ via[h] = "chat"
        /\ outcome[h].status = "raised"
        /\ body[h].kind = "error"
        /\ lenBefore[h] > 0

\* The call's external calls that the adapter can reach all succeeded.
AllSucceeded ==
    \A k \in 1..CallsOf(tool_call.tool) : tool_call.outcomes[k] = "success"

\* C11: whatever the outcomes of its external calls, an adapter that has run
\* has returned, never raised: a value when every call succeeded, a value or
\* an error string otherwise, and never nothing.
C11_AdaptersReturnText ==
    tool_result # NoResult =>
        /\ tool_result.kind = "return"
        /\ tool_result.value \in {"text", "data", "error_text"}
        /\ (AllSucceeded /\ tool_call.input = "ok") => tool_result.value \in {"text", "data"}

\* The types of the n turns of the Transcript after its first k turns.
TypesAfter(k, n) == [i \in 1..n |-> chat_history[k + i].type]

\* Caller h began its invoke right after caller g's UserTurn was appended,
\* and both have returned with a non-empty assistant message of their own.
ReturnedTogether(g, h) ==
    /\ g # h
    /\ lenBefore[h] = lenBefore[g] + 1
    /\ \A c \in {g, h} :
          /\ pc[c] = "done"
          /\ outcome[c].status = "returned"
          /\ OwnAIMessages(c) # <<>>

\* C12: nothing serializes two invokes.  Whenever both are suspended at
\* their model call, the request of the later one holds the whole request
\* of the earlier one, the earlier call's UserTurn included, while the
\* earlier call has appended no AssistantTurn yet (its run has produced
\* nothing).  When a call that began right after another call's UserTurn
\* and that other call have both returned with an assistant message, the
\* Transcript holds the two UserTurns followed by the two AssistantTurns.
C12_ConcurrentInvokesInterleave ==
    /\ (\A c \in Callers : pc[c] = "awaiting") =>
          \E g, h \in Callers :
              /\ g # h
              /\ Len(request[g]) < Len(request[h])
              /\ IsPrefix(request[g], request[h])
              /\ request[h][Len(request[g])] = Last(request[g])
              /\ Last(request[g]).type = "human"
              /\ Last(request[h]).type = "human"
              /\ produced[g] = <<>>
              /\ overlapped[g] /\ overlapped[h]
    /\ \A g, h \in Callers :
          ReturnedTogether(g, h) =>
              /\ Len(chat_history) = lenBefore[g] + 4
              /\ TypesAfter(lenBefore[g], 4) = <<"human", "human", "ai", "ai">>

\* C12 witness: two chat requests ran together, the second one's request
\* held the first one's UserTurn and no AssistantTurn, and the Transcript is
\* two UserTurns followed by the two AssistantTurns.
C12_Witness ==
    \E g, h \in Callers :
        /\ ReturnedTogether(g, h)
        /\ via[g] = "chat" /\ via[h] = "chat"
        /\ overlapped[g] /\ overlapped[h]
        /\ Len(request[g]) = 1
        /\ Len(request[h]) = 2
        /\ request[h][1] = request[g][1]
        /\ request[h][2].type = "human"
        /\ Len(chat_history) = 4
        /\ TypesAfter(0, 4) = <<"human", "human", "ai", "ai">>

\* Caller h's invoke ended because its model call raised, and no other
\* invoke ran meanwhile.
ModelFailedAlone(h) ==
    /\ pc[h] = "done"
    /\ outcome[h] = [status |-> "raised", error |-> ModelFailureText]
    /\ ~overlapped[h]

====
